---- MODULE Spec2Model ----
(***************************************************************************)
(* lit-watch: createWatcher(observable)(selector)(target, propertyKey).     *)
(* Model of lib/createWatcher.ts (src/unnamed/part_000, lines 228-447).     *)
(*                                                                         *)
(* One host class whose decorated properties are taken from the test suite:  *)
(*   @observe()                      complete   (no selector: identity)     *)
(*   @observe((state) => state.value) single                                *)
(* The class of a run declares the properties listed in `decorated`.        *)
(* Every decorated property owns one binding: subscribers, currentValue,    *)
(* thunk.  Every instance owns one hidden slot ctx[subscriptionKey] per     *)
(* binding.  A snapshot is an object reference (a number); two different    *)
(* references may carry the same .value, so reference equality of derived   *)
(* values is distinguishable from equality of snapshots.                    *)
(*                                                                         *)
(* Specifications: Spec (one decorated property), SpecPair (two), SpecBoth  *)
(* (src/src/index.ts given the same operations), SpecThrowing (a selector   *)
(* that throws on one snapshot), SpecReentrant (a host whose requestUpdate  *)
(* makes lifecycle calls).                                                  *)
(***************************************************************************)
EXTENDS Integers, Sequences, FiniteSets, TLC

\* ---------------------------------------------------------------- bounds
NumInstances == 2
NumSnapshots == 3
NumPairInstances == 1

Instances == 1..NumInstances
Snapshots == 1..NumSnapshots

\* ------------------------------------------------------ program constants
\* `let currentValue` is declared without initialiser: it reads undefined.
Undefined == 0
\* `let thunk: (() => void) | undefined`: no deferred recomputation pending.
NoThunk == 0
\* ctx[subscriptionKey] before the first connectedCallback (undefined), and
\* once it holds an unsubscribe closure
NoHandle == 0
Handle == 1
\* no snapshot has been pushed yet
NoSnapshot == 0
\* the state the store holds when the class is decorated ({ slice: [] })
InitialState == 1

\* the properties a class may declare
KeySet == {"complete", "single"}

VARIABLES
    stage,          \* how far the class definition got: "start", "watcher",
                    \* "decorator", "finishing", "defined" or "rejected"
    props,          \* the number of properties the class decorates
    ownFields,      \* whether the instances of the class under definition get an
                    \* own data property for each declared field (legacy
                    \* decorators compiled with define-semantics class fields);
                    \* FALSE again once the class and its instances exist
    watching,       \* the property whose selector was given to watch(selector)
    upstream,       \* the bindings subscribed to the source, in subscription order
    finishers,      \* the finishers returned to the class builder, not yet run
    decorated,      \* the properties patched into the prototype, in patching order
    own,            \* [key -> [instance -> "none", "data" or "getter"]] the
                    \* instance's own property of that name
    ownValue,       \* [key -> [instance -> value]] the value of an own data property
    sourceKind,     \* "store" (redux: pushes getState() on subscribe) or "stream" (Subject)
    subscribers,    \* [key -> Seq([ctx, held])]      let subscribers = []
    currentValue,   \* [key -> value]                 let currentValue
    thunk,          \* [key -> NoThunk or snapshot]   let thunk (the snapshot it captured)
    subscription,   \* [key -> [instance -> NoHandle or Handle]]   ctx[subscriptionKey]
    \* ---- history of the run, read by the properties only
    lastSnapshot,   \* the most recent snapshot the source pushed
    pushes,         \* pushes / dispatches after decoration: "none", "one" or "many"
    deferred,       \* [key -> BOOLEAN] the most recent push found the registry empty
    connected,      \* [instance -> BOOLEAN] last lifecycle call was connectedCallback
    lastOp,         \* the operation that led to this state
    calls,          \* requestUpdate(key, prev) invocations made by lastOp, in order
    selectorRuns,   \* [key -> number of selector invocations made by lastOp]
    prevRead,       \* the read right before lastOp, when lastOp is a read too
    info,           \* the decorator's arguments and the error thrown, for lastOp
    hooks,          \* what the lifecycle call of lastOp did, in order
    connectOrder,   \* the connected instances, by their most recent connectedCallback
    reentry,        \* [host, did, before]: whether requestUpdate of the host
                    \* makes lifecycle calls, the one it made during lastOp,
                    \* and the instances registered when the loop of lastOp began
    throwsOn,       \* the snapshot on which the user's selector throws (it
                    \* reads a member of a part the state lacks), or NoSnapshot
    \* ---- the other implementation of the repository, src/src/index.ts
    index           \* [on, currentValue, thunk, calls, ret]: whether index.ts is
                    \* given the same operations, its `let currentValue` and
                    \* `let thunk` per binding, and the requestUpdate calls it
                    \* made and the value its accessor returned in lastOp

vars == <<stage, props, ownFields, watching, upstream, finishers, decorated, own, ownValue,
          sourceKind, subscribers, currentValue, thunk, subscription,
          lastSnapshot, pushes, deferred, connected, lastOp, calls, selectorRuns,
          prevRead, info, hooks, connectOrder, reentry, throwsOn, index>>

\* --------------------------------------------------------------- helpers
\* A subscriber is a closure; the only closures that can still reach it are the
\* registry and the unsubscribe closure returned when it was subscribed.  An
\* entry therefore records its instance and whether that unsubscribe closure
\* is the one the instance's hidden slot holds now (`held`).

\* an unsubscribe closure that empties the registry
Filter_All(subs, ctx) == <<>>

RECURSIVE Filter(_, _)
\* subscribers.filter((item) => item !== subscriber), where `subscriber` is
\* the one the slot of ctx refers to
Filter(subs, ctx) ==
    IF subs = <<>> THEN <<>>
    ELSE IF Head(subs).ctx = ctx /\ Head(subs).held
         THEN Filter(Tail(subs), ctx)
         ELSE <<Head(subs)>> \o Filter(Tail(subs), ctx)

\* the user's selector of the property `single`: (state) => state.value.
\* Snapshots 1 and 2 are different objects holding the same value.
selector(value) == (value + 1) \div 2

\* maybeSelector that ignores the missing selector
maybeSelector_Always(key, value) == selector(value)

\* const maybeSelector = selector ?? ((value) => value)
maybeSelector(key, value) ==
    IF key = "complete" THEN value ELSE selector(value)

\* ctx[subscriptionKey]?.(): the unsubscribe closure drops exactly its own subscriber
unsubscribe(subs, ctx, handle) ==
    IF handle = NoHandle THEN subs ELSE Filter(subs, ctx)

\* a registry that puts the newest subscriber first
subscribe_Unshift(subs, ctx) ==
    <<[ctx |-> ctx, held |-> TRUE]>> \o
    [n \in 1..Len(subs) |->
        IF subs[n].ctx = ctx THEN [subs[n] EXCEPT !.held = FALSE] ELSE subs[n]]

\* ctx[subscriptionKey] = subscribe(...): subscribers.push(subscriber), and the
\* slot now holds the new closure, no longer that of an earlier entry of ctx
subscribe(subs, ctx) ==
    Append([n \in 1..Len(subs) |->
               IF subs[n].ctx = ctx THEN [subs[n] EXCEPT !.held = FALSE] ELSE subs[n]],
           [ctx |-> ctx, held |-> TRUE])

\* the selector of the binding throws on this snapshot; a binding without
\* selector selects by the identity, which never throws
SelectorThrows(key, value) ==
    key # "complete" /\ throwsOn # NoSnapshot /\ value = throwsOn

\* the pending thunk of the binding throws when it is run
ThunkThrows(key) ==
    thunk[key] # NoThunk /\ SelectorThrows(key, thunk[key])

\* a thunk that clears itself before it selects
RunThunk_ClearFirst(key) ==
    IF ThunkThrows(key)
    THEN [currentValue |-> currentValue[key], thunk |-> NoThunk, runs |-> 1]
    ELSE IF thunk[key] # NoThunk
    THEN [currentValue |-> maybeSelector(key, thunk[key]), thunk |-> NoThunk, runs |-> 1]
    ELSE [currentValue |-> currentValue[key], thunk |-> NoThunk, runs |-> 0]

\* a thunk that forgets `thunk = undefined`
RunThunk_NoClear(key) ==
    IF thunk[key] # NoThunk
    THEN [currentValue |-> maybeSelector(key, thunk[key]), thunk |-> thunk[key], runs |-> 1]
    ELSE [currentValue |-> currentValue[key], thunk |-> NoThunk, runs |-> 0]

\* thunk?.(): currentValue = maybeSelector(value); thunk = undefined.  When
\* maybeSelector throws neither assignment happens
RunThunk(key) ==
    IF ThunkThrows(key)
    THEN [currentValue |-> currentValue[key], thunk |-> thunk[key], runs |-> 1]
    ELSE IF thunk[key] # NoThunk
    THEN [currentValue |-> maybeSelector(key, thunk[key]), thunk |-> NoThunk, runs |-> 1]
    ELSE [currentValue |-> currentValue[key], thunk |-> NoThunk, runs |-> 0]

\* the accessor: get() { thunk?.(); return currentValue; }
get(key) == RunThunk(key)

\* a loop that stops after the first notifier
Notify_FirstOnly(key, subs, previousValue) ==
    <<[ctx |-> subs[1].ctx, key |-> key, prev |-> previousValue]>>

\* subscribers.forEach((notifier) => notifier(previousValue)), each notifier
\* calling ctx.requestUpdate(key, previousValue)
Notify(key, subs, previousValue) ==
    [n \in 1..Len(subs) |-> [ctx |-> subs[n].ctx, key |-> key, prev |-> previousValue]]

\* a callback that selects at once even when nobody is subscribed
OnNext_Eager(key, value) ==
    LET nextValue == maybeSelector(key, value) IN
    IF currentValue[key] # nextValue
    THEN [currentValue |-> nextValue, thunk |-> thunk[key],
          calls |-> Notify(key, subscribers[key], currentValue[key]),
          runs |-> 1, deferred |-> FALSE]
    ELSE [currentValue |-> currentValue[key], thunk |-> thunk[key],
          calls |-> <<>>, runs |-> 1, deferred |-> FALSE]

\* a callback that keeps a pending thunk instead of replacing it
OnNext_KeepPending(key, value) ==
    IF Len(subscribers[key]) = 0
    THEN [currentValue |-> currentValue[key],
          thunk |-> IF thunk[key] # NoThunk THEN thunk[key] ELSE value,
          calls |-> <<>>, runs |-> 0, deferred |-> TRUE]
    ELSE LET nextValue == maybeSelector(key, value) IN
         IF currentValue[key] # nextValue
         THEN [currentValue |-> nextValue, thunk |-> thunk[key],
               calls |-> Notify(key, subscribers[key], currentValue[key]),
               runs |-> 1, deferred |-> FALSE]
         ELSE [currentValue |-> currentValue[key], thunk |-> thunk[key],
               calls |-> <<>>, runs |-> 1, deferred |-> FALSE]

\* the callback given to from(observable).subscribe.  When maybeSelector
\* throws the callback ends at `const nextValue = maybeSelector(value)`
OnNext(key, value) ==
    IF Len(subscribers[key]) = 0
    THEN [currentValue |-> currentValue[key], thunk |-> value,
          calls |-> <<>>, runs |-> 0, deferred |-> TRUE]
    ELSE IF SelectorThrows(key, value)
    THEN [currentValue |-> currentValue[key], thunk |-> thunk[key],
          calls |-> <<>>, runs |-> 1, deferred |-> FALSE]
    ELSE LET nextValue == maybeSelector(key, value) IN
         IF currentValue[key] # nextValue
         THEN [currentValue |-> nextValue, thunk |-> thunk[key],
               calls |-> Notify(key, subscribers[key], currentValue[key]),
               runs |-> 1, deferred |-> FALSE]
         ELSE [currentValue |-> currentValue[key], thunk |-> thunk[key],
               calls |-> <<>>, runs |-> 1, deferred |-> FALSE]

\* a connectedCallback that subscribes only while the slot is empty
Connect_OnlyOnce(key, ctx) ==
    IF subscription[key][ctx] # NoHandle THEN subscribers[key]
    ELSE subscribe(subscribers[key], ctx)

\* a connectedCallback without `ctx[subscriptionKey]?.()`
Connect_NoUnsubscribe(key, ctx) == subscribe(subscribers[key], ctx)

\* the registry of one binding after the wrapped connectedCallback ran on ctx
Connect(key, ctx) ==
    subscribe(unsubscribe(subscribers[key], ctx, subscription[key][ctx]), ctx)

\* a disconnectedCallback that leaves the registry alone
Disconnect_Keep(key, ctx) == subscribers[key]

\* the registry of one binding after the wrapped disconnectedCallback ran on ctx
Disconnect(key, ctx) ==
    unsubscribe(subscribers[key], ctx, subscription[key][ctx])

\* a source that never pushes on subscribe
Seed_None(kind) == NoThunk

\* from(observable).subscribe at decoration time: a store pushes its current
\* state at once (nobody is subscribed: it is deferred), a Subject pushes nothing
Seed(kind) == IF kind = "store" THEN InitialState ELSE NoThunk

\* the properties of the class as a set
Decorated == {decorated[n] : n \in 1..Len(decorated)}

\* the bindings that hold an upstream subscription, as a set
Upstream == {upstream[n] : n \in 1..Len(upstream)}

RECURSIVE Concat(_, _)
\* the calls of the first n bindings, in subscription order
Concat(f, n) == IF n = 0 THEN <<>> ELSE Concat(f, n - 1) \o f[upstream[n]]

\* the record of one operation: `was` tells whether the instance of a lifecycle
\* call had connectedCallback as its previous lifecycle call
Op(op, ctx, key, snap, ret, was) ==
    [op |-> op, ctx |-> ctx, key |-> key, snap |-> snap, ret |-> ret, was |-> was]

NoRead == [key |-> "", ret |-> Undefined, runs |-> 0]

\* the arguments of watchDecorator and the error an operation threw
Info(path, kind, descriptor, error, named) ==
    [path |-> path, kind |-> kind, descriptor |-> descriptor,
     error |-> error, named |-> named]

NoInfo == Info("", "", "", "", "")

\* a decorator that rejects every element of kind 'method'
Throws_AnyMethod(path, kind, descriptor) ==
    path = "tc39" /\ kind = "method"

\* propertyKey === undefined && classElement.kind === 'method' &&
\* classElement.descriptor !== undefined && !('value' in classElement.descriptor)
Throws(path, kind, descriptor) ==
    /\ path = "tc39"
    /\ kind = "method"
    /\ descriptor # "undefined"
    /\ descriptor # "value"

\* a decorator that forgets to subscribe
FromSubscribe_None(ups, key) == ups

\* from(observable).subscribe(...): one more upstream subscription
FromSubscribe(ups, key) == Append(ups, key)

\* a connectedCallback without the descriptor repair
Repair_Never(o) == o

\* if (typeof Object.getOwnPropertyDescriptor(ctx, key)?.get !== 'function')
\*     configureSetter(ctx)
Repair(o) == IF o # "getter" THEN "getter" ELSE o

\* one step of a lifecycle call
Event(ev, key) == [ev |-> ev, key |-> key]

\* what the wrapper of one binding does in connectedCallback, after connect?.call(this)
ConnectEvents(key, ctx) ==
    (IF own[key][ctx] # "getter" THEN <<Event("repair", key)>> ELSE <<>>)
    \o (IF subscription[key][ctx] # NoHandle THEN <<Event("unsubscribe", key)>> ELSE <<>>)
    \o <<Event("subscribe", key)>>

\* what the wrapper of one binding does in disconnectedCallback, before
\* disconnect?.call(this)
DisconnectEvents(key, ctx) ==
    IF subscription[key][ctx] # NoHandle THEN <<Event("unsubscribe", key)>> ELSE <<>>

RECURSIVE ConnectHooks_OriginalLast(_, _)
\* wrappers that call the existing connectedCallback after their own work
ConnectHooks_OriginalLast(n, ctx) ==
    IF n = 0 THEN <<Event("original", "")>>
    ELSE ConnectEvents(decorated[n], ctx) \o ConnectHooks_OriginalLast(n - 1, ctx)

RECURSIVE ConnectHooks(_, _)
\* the chain of the first n wrappers of connectedCallback: each calls the one
\* it replaced (at the bottom the host's own method), then does its own work
ConnectHooks(n, ctx) ==
    IF n = 0 THEN <<Event("original", "")>>
    ELSE ConnectHooks(n - 1, ctx) \o ConnectEvents(decorated[n], ctx)

RECURSIVE DisconnectHooks_NoOriginal(_, _)
\* wrappers of disconnectedCallback that never reach the host's own method
DisconnectHooks_NoOriginal(n, ctx) ==
    IF n = 0 THEN <<>>
    ELSE DisconnectEvents(decorated[n], ctx) \o DisconnectHooks_NoOriginal(n - 1, ctx)

RECURSIVE DisconnectHooks(_, _)
\* the chain of the first n wrappers of disconnectedCallback: each does its own
\* work, then calls the one it replaced
DisconnectHooks(n, ctx) ==
    IF n = 0 THEN <<Event("original", "")>>
    ELSE DisconnectEvents(decorated[n], ctx) \o DisconnectHooks(n - 1, ctx)

RECURSIVE Without(_, _)
\* a sequence of instances without ctx
Without(seq, ctx) ==
    IF seq = <<>> THEN <<>>
    ELSE IF Head(seq) = ctx THEN Without(Tail(seq), ctx)
         ELSE <<Head(seq)>> \o Without(Tail(seq), ctx)

\* requestUpdate making no lifecycle call
NoReaction == [by |-> 0, op |-> "", ctx |-> 0]

\* requestUpdate(key, previousValue) called on the instance `by` runs the
\* lifecycle call `op` on the instance `ctx` before it returns
Reaction(by, op, ctx) == [by |-> by, op |-> op, ctx |-> ctx]

\* the host after an operation in which requestUpdate was not called
NoReentry == [reentry EXCEPT !.did = NoReaction, !.before = <<>>]

\* a loop that looks up each index in what `subscribers` holds at that moment
Visited_Live(array, live, n) == IF n <= Len(live) THEN <<live[n]>> ELSE <<>>

\* the element subscribers.forEach visits at index n: forEach walks the array
\* it was called on, whatever has been assigned to `subscribers` since, and
\* skips an index the array does not have
Visited(array, live, n) == IF n <= Len(array) THEN <<array[n]>> ELSE <<>>

\* the lifecycle call of `react`, made while the loop over st.array runs:
\* ctx[subscriptionKey]?.() assigns a filtered copy to `subscribers`
\* (st.live), which from then on is not the array the loop walks; subscribe
\* pushes onto the array `subscribers` holds, which still is the array the
\* loop walks when nothing was filtered before
React(st, react) ==
    LET ctx == react.ctx
        live == unsubscribe(st.live, ctx, st.slot[ctx])
        same == st.same /\ st.slot[ctx] = NoHandle
    IN IF react.op = "disconnect"
       THEN [st EXCEPT !.live = live, !.same = same]
       ELSE [st EXCEPT !.live = subscribe(live, ctx),
                       !.same = same,
                       !.array = IF same THEN subscribe(live, ctx) ELSE @,
                       !.slot = [@ EXCEPT ![ctx] = Handle]]

RECURSIVE ForEach(_, _, _, _, _, _)
\* subscribers.forEach((notifier) => notifier(previousValue)) from index n
\* on, up to the length the array had when the loop began; the notifier of
\* react.by makes the lifecycle call of `react`
ForEach(key, st, len, n, previousValue, react) ==
    IF n > len THEN st
    ELSE LET seen == Visited(st.array, st.live, n)
             called == [st EXCEPT !.calls = @ \o
                            [m \in 1..Len(seen) |->
                                [ctx |-> seen[m].ctx, key |-> key, prev |-> previousValue]]]
         IN ForEach(key,
                    IF seen # <<>> /\ seen[1].ctx = react.by THEN React(called, react)
                    ELSE called,
                    len, n + 1, previousValue, react)

\* index.ts left out of a run
IndexOff ==
    [on |-> FALSE,
     currentValue |-> [k \in KeySet |-> Undefined],
     thunk |-> [k \in KeySet |-> NoThunk],
     calls |-> <<>>,
     ret |-> Undefined]

\* index.ts, the callback given to from(observable).subscribe; its registry
\* is written and used exactly as that of lib/createWatcher.ts
IndexOnNext(key, value) ==
    IF Len(subscribers[key]) = 0
    THEN [currentValue |-> index.currentValue[key], thunk |-> value, calls |-> <<>>]
    ELSE LET nextValue == maybeSelector(key, value) IN
         IF index.currentValue[key] # nextValue
         THEN [currentValue |-> nextValue, thunk |-> index.thunk[key],
               calls |-> Notify(key, subscribers[key], index.currentValue[key])]
         ELSE [currentValue |-> index.currentValue[key], thunk |-> index.thunk[key],
               calls |-> <<>>]

\* index.ts, connectedCallback: thunk?.()
IndexRunThunk(key) ==
    IF index.thunk[key] # NoThunk
    THEN [currentValue |-> maybeSelector(key, index.thunk[key]), thunk |-> NoThunk]
    ELSE [currentValue |-> index.currentValue[key], thunk |-> NoThunk]

\* index.ts, the accessor: get() { return currentValue; }
IndexGet(key) == index.currentValue[key]

\* index.ts after an operation that leaves its bindings alone
IndexIdle == [index EXCEPT !.calls = <<>>, !.ret = Undefined]

\* index.ts takes the step `next` when it is part of the run
IndexStep(next) == index' = IF index.on THEN next ELSE index

\* the values the tests of the model assign to a property
AssignedValues == {InitialState + 1}

\* what a new instance holds under the name of a decorated field
OwnAtConstruction(shadow) == IF shadow THEN "data" ELSE "none"

\* ------------------------------------------------------------------ Init
InitWith(n, builds, kinds) ==
    /\ stage = "start"
    /\ props = n
    /\ ownFields \in builds
    /\ watching = ""
    /\ upstream = <<>>
    /\ finishers = <<>>
    /\ decorated = <<>>
    /\ own = [k \in KeySet |-> [i \in Instances |-> "none"]]
    /\ ownValue = [k \in KeySet |-> [i \in Instances |-> Undefined]]
    /\ sourceKind \in kinds
    /\ subscribers = [k \in KeySet |-> <<>>]
    /\ currentValue = [k \in KeySet |-> Undefined]
    /\ thunk = [k \in KeySet |-> NoThunk]
    /\ subscription = [k \in KeySet |-> [i \in Instances |-> NoHandle]]
    /\ lastSnapshot = NoSnapshot
    /\ pushes = "none"
    /\ deferred = [k \in KeySet |-> FALSE]
    /\ connected = [i \in Instances |-> FALSE]
    /\ lastOp = Op("init", 0, "", NoSnapshot, Undefined, FALSE)
    /\ calls = <<>>
    /\ selectorRuns = [k \in KeySet |-> 0]
    /\ prevRead = NoRead
    /\ info = NoInfo
    /\ hooks = <<>>
    /\ connectOrder = <<>>

\* a class with one decorated property
Init ==
    /\ InitWith(1, BOOLEAN, {"store", "stream"})
    /\ reentry = [host |-> FALSE, did |-> NoReaction, before |-> <<>>]
    /\ throwsOn = NoSnapshot
    /\ index = IndexOff

\* --------------------------------------------------------------- actions
\* what every operation but a lifecycle call leaves of the history
Quiet ==
    /\ calls' = <<>>
    /\ selectorRuns' = [k \in KeySet |-> 0]
    /\ prevRead' = NoRead
    /\ hooks' = <<>>

\* const watch = createWatcher(observable)
createWatcher ==
    /\ stage = "start"
    /\ stage' = "watcher"
    /\ lastOp' = Op("createWatcher", 0, "", NoSnapshot, Undefined, FALSE)
    /\ info' = NoInfo
    /\ Quiet
    /\ reentry' = NoReentry
    /\ IndexStep(IndexIdle)
    /\ UNCHANGED <<props, throwsOn, ownFields, watching, upstream, finishers, decorated, own, ownValue,
                   sourceKind, subscribers, currentValue, thunk, subscription,
                   lastSnapshot, pushes, deferred, connected, connectOrder>>

\* watch(selector) for the property `key`: watchDecoratorGenerator
watchDecoratorGenerator(key) ==
    /\ stage = "watcher"
    /\ key \notin Upstream
    /\ stage' = "decorator"
    /\ watching' = key
    /\ lastOp' = Op("watch", 0, key, NoSnapshot, Undefined, FALSE)
    /\ info' = NoInfo
    /\ Quiet
    /\ reentry' = NoReentry
    /\ IndexStep(IndexIdle)
    /\ UNCHANGED <<props, throwsOn, ownFields, upstream, finishers, decorated, own, ownValue,
                   sourceKind, subscribers, currentValue, thunk, subscription,
                   lastSnapshot, pushes, deferred, connected, connectOrder>>

\* the stage after a property was patched or its finisher was queued
AfterDecoration(ups, fins) ==
    IF Len(ups) < props THEN "watcher"
    ELSE IF fins # <<>> THEN "finishing" ELSE "defined"

\* the fields still to be given to instances after a decoration step
FieldsAfter(next) == IF next = "defined" THEN FALSE ELSE ownFields

\* patchPrototypeWithWatcher(prototype, key): the accessor and the two wrappers
\* are installed; `shadow` tells whether instances get an own data property of
\* that name
Patch(key, shadow) ==
    /\ decorated' = Append(decorated, key)
    /\ own' = [own EXCEPT ![key] = [i \in Instances |-> OwnAtConstruction(shadow)]]

\* the decorator applied to a class member: watchDecorator(target, propertyKey)
watchDecorator(path, kind, descriptor) ==
    LET key == watching IN
    /\ stage = "decorator"
    /\ ownFields => path = "legacy"
    \* the binding and its upstream subscription
    /\ upstream' = FromSubscribe(upstream, key)
    /\ thunk' = [thunk EXCEPT ![key] = Seed(sourceKind)]
    /\ deferred' = [deferred EXCEPT ![key] = sourceKind = "store"]
    /\ lastSnapshot' = Seed(sourceKind)
    /\ IF Throws(path, kind, descriptor)
       THEN /\ stage' = "rejected"
            /\ info' = Info(path, kind, descriptor, "Error", key)
            /\ UNCHANGED <<finishers, decorated, own, ownFields>>
       ELSE IF path = "tc39"
       THEN /\ finishers' = Append(finishers, key)
            /\ stage' = AfterDecoration(upstream', finishers')
            /\ info' = Info(path, kind, descriptor, "", "")
            /\ UNCHANGED <<decorated, own, ownFields>>
       ELSE /\ Patch(key, ownFields)
            /\ stage' = AfterDecoration(upstream', finishers)
            /\ ownFields' = FieldsAfter(stage')
            /\ info' = Info(path, kind, descriptor, "", "")
            /\ UNCHANGED finishers
    /\ lastOp' = Op("decorate", 0, key, NoSnapshot, Undefined, FALSE)
    /\ Quiet
    /\ reentry' = NoReentry
    /\ IndexStep([IndexIdle EXCEPT !.thunk[key] = Seed(sourceKind)])
    /\ UNCHANGED <<props, throwsOn, watching, ownValue, sourceKind, subscribers, currentValue,
                   subscription, pushes, connected, connectOrder>>

\* finisher(clazz): run by the class builder once the class exists
finisher ==
    /\ stage = "finishing"
    /\ Patch(Head(finishers), FALSE)
    /\ finishers' = Tail(finishers)
    /\ stage' = IF finishers' # <<>> THEN "finishing" ELSE "defined"
    /\ ownFields' = FieldsAfter(stage')
    /\ lastOp' = Op("finisher", 0, Head(finishers), NoSnapshot, Undefined, FALSE)
    /\ info' = NoInfo
    /\ Quiet
    /\ reentry' = NoReentry
    /\ IndexStep(IndexIdle)
    /\ UNCHANGED <<props, throwsOn, watching, upstream, ownValue, sourceKind, subscribers,
                   currentValue, thunk, subscription, lastSnapshot, pushes, deferred,
                   connected, connectOrder>>

\* the instances created of the class: fewer of the class with two properties
Acting == IF props = 1 THEN Instances ELSE 1..NumPairInstances

\* the instances that may run connectedCallback: instances are numbered in
\* the order of their first connectedCallback
Connectable ==
    {ctx \in Acting :
        \A other \in 1..(ctx - 1) : \A key \in Decorated :
            subscription[key][other] # NoHandle}

\* what the host's requestUpdate may do during the push of `value`: in a class
\* with one decorated property whose loop runs, the notifier of one registered
\* instance may run connectedCallback or disconnectedCallback on an instance
Reactions(value) ==
    IF reentry.host /\ stage = "defined" /\ Len(upstream) = 1
          /\ OnNext(upstream[1], value).calls # <<>>
    THEN LET notified == {subscribers[upstream[1]][n].ctx :
                             n \in 1..Len(subscribers[upstream[1]])}
         IN {NoReaction}
            \cup {Reaction(by, "connect", ctx) : by \in notified, ctx \in Connectable}
            \cup {Reaction(by, "disconnect", ctx) : by \in notified, ctx \in Acting}
    ELSE {NoReaction}

\* observable.next(value) / store.dispatch(action) leaving the store in `value`:
\* every binding's callback runs, in subscription order
Push(value) ==
    LET r == [k \in Upstream |-> OnNext(k, value)]
        q == [k \in Upstream |-> IndexOnNext(k, value)]
    IN
    /\ stage \in {"defined", "rejected"}
    /\ IndexStep([index EXCEPT
                     !.currentValue = [k \in KeySet |-> IF k \in Upstream
                                                        THEN q[k].currentValue ELSE @[k]],
                     !.thunk = [k \in KeySet |-> IF k \in Upstream THEN q[k].thunk
                                                 ELSE @[k]],
                     !.calls = Concat([k \in Upstream |-> q[k].calls], Len(upstream)),
                     !.ret = Undefined])
    /\ currentValue' = [k \in KeySet |-> IF k \in Upstream THEN r[k].currentValue
                                         ELSE currentValue[k]]
    /\ thunk' = [k \in KeySet |-> IF k \in Upstream THEN r[k].thunk ELSE thunk[k]]
    /\ selectorRuns' = [k \in KeySet |-> IF k \in Upstream THEN r[k].runs ELSE 0]
    /\ deferred' = [k \in KeySet |-> k \in Upstream /\ r[k].deferred]
    /\ lastSnapshot' = value
    /\ pushes' = IF pushes = "none" THEN "one" ELSE "many"
    /\ lastOp' = Op("push", 0, "", value, Undefined, FALSE)
    /\ prevRead' = NoRead
    /\ info' = IF \E k \in Upstream : Len(subscribers[k]) # 0 /\ SelectorThrows(k, value)
               THEN Info("", "", "", "Error", "")
               ELSE NoInfo
    /\ \E react \in Reactions(value) :
         IF react = NoReaction
         THEN /\ calls' = Concat([k \in Upstream |-> r[k].calls], Len(upstream))
              /\ hooks' = <<>>
              /\ reentry' = NoReentry
              /\ UNCHANGED <<subscribers, subscription, connected, connectOrder, own,
                             ownValue>>
         ELSE \E loop \in {ForEach(upstream[1],
                                    [array |-> subscribers[upstream[1]],
                                     live |-> subscribers[upstream[1]],
                                     same |-> TRUE,
                                     slot |-> subscription[upstream[1]],
                                     calls |-> <<>>],
                                    Len(subscribers[upstream[1]]), 1,
                                    currentValue[upstream[1]], react)} :
              LET key == upstream[1]
                  ctx == react.ctx
              IN /\ calls' = loop.calls
                 /\ subscribers' = [subscribers EXCEPT ![key] = loop.live]
                 /\ subscription' = [subscription EXCEPT ![key] = loop.slot]
                 /\ connected' = [connected EXCEPT ![ctx] = (react.op = "connect")]
                 /\ connectOrder' = IF react.op = "connect"
                                    THEN Append(Without(connectOrder, ctx), ctx)
                                    ELSE Without(connectOrder, ctx)
                 /\ own' = IF react.op = "connect"
                           THEN [own EXCEPT ![key][ctx] = Repair(@)]
                           ELSE own
                 /\ ownValue' = IF react.op = "connect" /\ own'[key][ctx] # "data"
                                THEN [ownValue EXCEPT ![key][ctx] = Undefined]
                                ELSE ownValue
                 /\ hooks' = IF react.op = "connect"
                             THEN ConnectHooks(Len(decorated), ctx)
                             ELSE DisconnectHooks(Len(decorated), ctx)
                 /\ reentry' = [reentry EXCEPT
                                   !.did = react,
                                   !.before = [n \in 1..Len(subscribers[key]) |->
                                                  subscribers[key][n].ctx]]
    /\ UNCHANGED <<stage, props, throwsOn, ownFields, watching, upstream, finishers, decorated,
                   sourceKind>>

\* instance.connectedCallback(): the chain of wrappers, one per decorated property
connectedCallback(ctx) ==
    /\ stage = "defined"
    /\ subscribers' = [k \in KeySet |-> IF k \in Decorated THEN Connect(k, ctx)
                                        ELSE subscribers[k]]
    /\ subscription' = [k \in KeySet |->
                           IF k \in Decorated
                           THEN [subscription[k] EXCEPT ![ctx] = Handle]
                           ELSE subscription[k]]
    /\ own' = [k \in KeySet |->
                  IF k \in Decorated
                  THEN [own[k] EXCEPT ![ctx] = Repair(own[k][ctx])]
                  ELSE own[k]]
    /\ ownValue' = [k \in KeySet |->
                       IF k \in Decorated /\ own'[k][ctx] # "data"
                       THEN [ownValue[k] EXCEPT ![ctx] = Undefined]
                       ELSE ownValue[k]]
    /\ connected' = [connected EXCEPT ![ctx] = TRUE]
    /\ connectOrder' = Append(Without(connectOrder, ctx), ctx)
    /\ hooks' = ConnectHooks(Len(decorated), ctx)
    /\ reentry' = NoReentry
    /\ IndexStep([IndexIdle EXCEPT
                     !.currentValue = [k \in KeySet |->
                                          IF k \in Decorated
                                          THEN IndexRunThunk(k).currentValue ELSE @[k]],
                     !.thunk = [k \in KeySet |->
                                   IF k \in Decorated THEN IndexRunThunk(k).thunk
                                   ELSE @[k]]])
    /\ lastOp' = Op("connect", ctx, "", NoSnapshot, Undefined, connected[ctx])
    /\ calls' = <<>>
    /\ selectorRuns' = [k \in KeySet |-> 0]
    /\ prevRead' = NoRead
    /\ info' = NoInfo
    /\ UNCHANGED <<stage, props, throwsOn, ownFields, watching, upstream, finishers, decorated,
                   sourceKind, currentValue, thunk, lastSnapshot, pushes, deferred>>

\* instance.disconnectedCallback(): the slot is called, and keeps its closure
disconnectedCallback(ctx) ==
    /\ stage = "defined"
    /\ subscribers' = [k \in KeySet |-> IF k \in Decorated THEN Disconnect(k, ctx)
                                        ELSE subscribers[k]]
    /\ connected' = [connected EXCEPT ![ctx] = FALSE]
    /\ connectOrder' = Without(connectOrder, ctx)
    /\ hooks' = DisconnectHooks(Len(decorated), ctx)
    /\ reentry' = NoReentry
    /\ IndexStep(IndexIdle)
    /\ lastOp' = Op("disconnect", ctx, "", NoSnapshot, Undefined, connected[ctx])
    /\ calls' = <<>>
    /\ selectorRuns' = [k \in KeySet |-> 0]
    /\ prevRead' = NoRead
    /\ info' = NoInfo
    /\ UNCHANGED <<stage, props, throwsOn, ownFields, watching, upstream, finishers, decorated, own,
                   ownValue, sourceKind, currentValue, thunk, subscription,
                   lastSnapshot, pushes, deferred>>

\* reading instance[key]: an own data property answers by itself (op "own"),
\* otherwise the accessor runs (op "get")
Read(ctx, key) ==
    LET r == get(key) IN
    /\ stage = "defined"
    /\ IF own[key][ctx] = "data"
       THEN /\ lastOp' = Op("own", ctx, key, NoSnapshot, ownValue[key][ctx], FALSE)
            /\ selectorRuns' = [k \in KeySet |-> 0]
            /\ prevRead' = NoRead
            /\ UNCHANGED <<currentValue, thunk>>
       ELSE /\ currentValue' = [currentValue EXCEPT ![key] = r.currentValue]
            /\ thunk' = [thunk EXCEPT ![key] = r.thunk]
            /\ lastOp' = Op("get", ctx, key, NoSnapshot,
                            IF ThunkThrows(key) THEN Undefined ELSE r.currentValue, FALSE)
            /\ selectorRuns' = [k \in KeySet |-> IF k = key THEN r.runs ELSE 0]
            /\ prevRead' = IF lastOp.op = "get"
                           THEN [key |-> lastOp.key, ret |-> lastOp.ret,
                                 runs |-> selectorRuns[lastOp.key]]
                           ELSE NoRead
    /\ reentry' = NoReentry
    /\ IndexStep([IndexIdle EXCEPT !.ret = IndexGet(key)])
    /\ calls' = <<>>
    /\ info' = IF own[key][ctx] # "data" /\ ThunkThrows(key)
               THEN Info("", "", "", "Error", "")
               ELSE NoInfo
    /\ hooks' = <<>>
    /\ UNCHANGED <<stage, props, throwsOn, ownFields, watching, upstream, finishers, decorated, own,
                   ownValue, sourceKind, subscribers, subscription, lastSnapshot,
                   pushes, deferred, connected, connectOrder>>

\* an accessor with a setter that stores the assigned value
Assign_Writes(ctx, key, value) ==
    /\ stage = "defined"
    /\ currentValue' = [currentValue EXCEPT ![key] = value]
    /\ info' = NoInfo
    /\ lastOp' = Op("set", ctx, key, NoSnapshot, Undefined, FALSE)
    /\ Quiet
    /\ reentry' = NoReentry
    /\ IndexStep(IndexIdle)
    /\ UNCHANGED <<stage, props, throwsOn, ownFields, watching, upstream, finishers, decorated, own,
                   ownValue, sourceKind, subscribers, thunk, subscription,
                   lastSnapshot, pushes, deferred, connected, connectOrder>>

\* instance[key] = value: an own data property takes the value; the accessor
\* has no setter, so the assignment throws a TypeError (in strict code, as
\* class bodies and modules are; sloppy code drops it with the same effect on
\* the state)
Assign(ctx, key, value) ==
    /\ stage = "defined"
    /\ IF own[key][ctx] = "data"
       THEN /\ ownValue' = [ownValue EXCEPT ![key][ctx] = value]
            /\ info' = NoInfo
       ELSE /\ info' = Info("", "", "", "TypeError", "")
            /\ UNCHANGED ownValue
    /\ lastOp' = Op("set", ctx, key, NoSnapshot, Undefined, FALSE)
    /\ Quiet
    /\ reentry' = NoReentry
    /\ IndexStep(IndexIdle)
    /\ UNCHANGED <<stage, props, throwsOn, ownFields, watching, upstream, finishers, decorated, own,
                   sourceKind, subscribers, currentValue, thunk, subscription,
                   lastSnapshot, pushes, deferred, connected, connectOrder>>

Next ==
    \/ createWatcher
    \/ \E key \in KeySet : watchDecoratorGenerator(key)
    \/ \E path \in {"legacy", "tc39"}, kind \in {"field", "method"},
          descriptor \in {"undefined", "value", "accessor"} :
          watchDecorator(path, kind, descriptor)
    \/ finisher
    \/ \E value \in Snapshots : Push(value)
    \/ \E ctx \in Connectable : connectedCallback(ctx)
    \/ \E ctx \in Acting : disconnectedCallback(ctx)
    \/ \E ctx \in Acting, key \in Decorated : Read(ctx, key)
    \/ \E ctx \in Acting, key \in Decorated, value \in AssignedValues :
          Assign(ctx, key, value)

Spec == Init /\ [][Next]_vars

\* a class with two decorated properties watching a store, in a build without
\* own fields
InitPair ==
    /\ InitWith(2, {FALSE}, {"store"})
    /\ reentry = [host |-> FALSE, did |-> NoReaction, before |-> <<>>]
    /\ throwsOn = NoSnapshot
    /\ index = IndexOff

SpecPair == InitPair /\ [][Next]_vars

\* a class with one decorated property, in a build without own fields, with
\* src/src/index.ts given every operation lib/createWatcher.ts is given
InitBoth ==
    /\ InitWith(1, {FALSE}, {"store", "stream"})
    /\ reentry = [host |-> FALSE, did |-> NoReaction, before |-> <<>>]
    /\ throwsOn = NoSnapshot
    /\ index = [IndexOff EXCEPT !.on = TRUE]

SpecBoth == InitBoth /\ [][Next]_vars

\* a class with one decorated property, in a build without own fields, whose
\* selector throws on the last snapshot
InitThrowing ==
    /\ InitWith(1, {FALSE}, {"store", "stream"})
    /\ reentry = [host |-> FALSE, did |-> NoReaction, before |-> <<>>]
    /\ throwsOn = NumSnapshots
    /\ index = IndexOff

SpecThrowing == InitThrowing /\ [][Next]_vars

\* a class with one decorated property watching a Subject, in a build without
\* own fields, on a host whose requestUpdate makes lifecycle calls
InitReentrant ==
    /\ InitWith(1, {FALSE}, {"stream"})
    /\ reentry = [host |-> TRUE, did |-> NoReaction, before |-> <<>>]
    /\ throwsOn = NoSnapshot
    /\ index = IndexOff

SpecReentrant == InitReentrant /\ [][Next]_vars

\* ------------------------------------------------------------ properties
\* the selection of the most recent snapshot, undefined before the first one
Expected(key) ==
    IF lastSnapshot = NoSnapshot THEN Undefined
    ELSE IF key = "complete" THEN lastSnapshot ELSE selector(lastSnapshot)

\* the positions of `calls` that are requestUpdate(key, _) on instance ctx
CallsOn(log, key, ctx) ==
    {n \in 1..Len(log) : log[n].ctx = ctx /\ log[n].key = key}

\* C1: every read of the decorated property returns the selection function
\* applied to the most recent snapshot the source pushed (undefined when
\* nothing was pushed), whatever pushes, connects, disconnects and reads came
\* before.
C1_ReadReturnsLatest ==
    lastOp.op = "get" => lastOp.ret = Expected(lastOp.key)

\* C2: a push never calls requestUpdate on an instance whose last lifecycle
\* call was disconnectedCallback, and a read on such an instance still returns
\* the value derived from the latest push.
C2_DisconnectSilences ==
    /\ \A n \in 1..Len(calls) : connected[calls[n].ctx]
    /\ ( /\ lastOp.op = "get"
         /\ ~connected[lastOp.ctx]
         /\ subscription[lastOp.key][lastOp.ctx] # NoHandle )
       => lastOp.ret = Expected(lastOp.key)

\* C3: a push that arrives while an instance is connected, and whose derived
\* value is not the stored currentValue, stores the derived value and calls
\* requestUpdate(key, previous stored value) exactly once on every connected
\* instance and on no other, within that push.
C3_EagerPushNotifiesAll ==
    [][\A k \in Decorated :
         ( /\ lastOp'.op = "push"
           /\ \E i \in Instances : connected[i]
           /\ (IF k = "complete" THEN lastOp'.snap ELSE selector(lastOp'.snap))
                 # currentValue[k] )
         => /\ currentValue'[k] =
                 (IF k = "complete" THEN lastOp'.snap ELSE selector(lastOp'.snap))
            /\ \A i \in Instances :
                 Cardinality(CallsOn(calls', k, i)) = (IF connected[i] THEN 1 ELSE 0)
            /\ \A n \in 1..Len(calls') :
                 calls'[n].key = k => calls'[n].prev = currentValue[k]]_vars

\* a push changed a defined value and notified two connected instances
C3_Witness ==
    /\ lastOp.op = "push"
    /\ Len(calls) >= 2
    /\ calls[1].prev # Undefined
    /\ calls[1].ctx # calls[2].ctx
    /\ currentValue[calls[1].key] = Expected(calls[1].key)

\* C4: the previousValue given to requestUpdate by a push is the value the
\* accessor would have returned immediately before that push.
C4_PreviousValueIsAccessorValue ==
    [][lastOp'.op = "push" =>
         \A n \in 1..Len(calls') :
            calls'[n].prev = get(calls'[n].key).currentValue]_vars

\* C5: a push whose derived value is reference-equal to the previous derived
\* value (what the accessor returned before the push) calls requestUpdate on
\* nobody.
C5_NoNotifyOnEqual ==
    [][\A k \in Decorated :
         ( /\ lastOp'.op = "push"
           /\ (IF k = "complete" THEN lastOp'.snap ELSE selector(lastOp'.snap))
                 = get(k).currentValue )
         => \A n \in 1..Len(calls') : calls'[n].key # k]_vars

\* C6: an instance has at most one subscriber in a binding's registry, and a
\* push calls requestUpdate at most once per instance and property.
C6_AtMostOneRegistration ==
    \A k \in KeySet, i \in Instances :
        /\ Cardinality({n \in 1..Len(subscribers[k]) : subscribers[k][n].ctx = i}) <= 1
        /\ Cardinality(CallsOn(calls, k, i)) <= 1

\* connectedCallback ran on an instance that was connected already, next to
\* another connected instance
C6_Witness ==
    /\ lastOp.op = "connect"
    /\ lastOp.was
    /\ \E k \in Decorated : Len(subscribers[k]) >= 2

C9_DeferredPushNotLost ==
    (lastOp.op = "get" /\ deferred[lastOp.key])
    => lastOp.ret = (IF lastOp.key = "complete" THEN lastSnapshot
                     ELSE selector(lastSnapshot))

\* after several pushes the last one was deferred, then an instance connected
\* and its read ran the deferred recomputation
C9_Witness ==
    /\ lastOp.op = "get"
    /\ deferred[lastOp.key]
    /\ pushes = "many"
    /\ connected[lastOp.ctx]
    /\ selectorRuns[lastOp.key] = 1
    /\ sourceKind = "stream"

\* C10: two reads in a row return the same value and run the deferred
\* recomputation at most once between them; a read leaves no thunk pending.
C10_ReadTwice ==
    /\ lastOp.op = "get" => thunk[lastOp.key] = NoThunk
    /\ (lastOp.op = "get" /\ prevRead.key = lastOp.key)
       => /\ lastOp.ret = prevRead.ret
          /\ prevRead.runs + selectorRuns[lastOp.key] <= 1

\* the second of two reads in a row, the first of which ran the thunk
C10_Witness ==
    /\ lastOp.op = "get"
    /\ prevRead.key = lastOp.key
    /\ prevRead.runs = 1
    /\ selectorRuns[lastOp.key] = 0

\* C11, as stated: applying the decorator to a member of kind method (a method
\* or an accessor) always fails with an error naming the member, and applying
\* it to a data-holding property never fails
C11_MethodOrAccessorRejected ==
    lastOp.op = "decorate" =>
        ((info.kind = "method") <=> (info.error = "Error" /\ info.named = lastOp.key))

\* C11, amended: the application fails, with an error naming the member and
\* without patching the class, exactly when an accessor member is decorated
\* through the class-element path; a field, a plain method and every
\* application through the (target, propertyKey) path is accepted
C11_OnlyElementAccessorRejected ==
    lastOp.op = "decorate" =>
        /\ (info.error = "Error") <=>
               (info.path = "tc39" /\ info.kind = "method" /\ info.descriptor = "accessor")
        /\ info.error = "Error" =>
               (info.named = lastOp.key /\ stage = "rejected" /\ lastOp.key \notin Decorated)
        /\ info.error # "Error" => (info.error = "" /\ stage # "rejected")

\* an accessor named "single" was decorated through the class-element path
C11_Witness ==
    /\ lastOp.op = "decorate"
    /\ info.error = "Error"
    /\ info.named = "single"
    /\ info.path = "tc39"

\* the properties the decorator has been applied to: those patched, those
\* whose finisher is queued, and the one whose decoration was rejected
Applications ==
    Len(decorated) + Len(finishers) + (IF stage = "rejected" THEN 1 ELSE 0)

\* C12: there are as many upstream subscriptions as properties the decorator
\* has been applied to; createWatcher and watch(selector) make none, every
\* application of the decorator makes exactly one, and no finisher,
\* connectedCallback, disconnectedCallback, read, assignment or push makes or
\* cancels one
C12_OneSubscriptionPerApplication ==
    /\ [](Len(upstream) = Applications)
    /\ [][IF lastOp'.op = "decorate"
          THEN /\ Len(upstream') = Len(upstream) + 1
               /\ upstream'[Len(upstream')] = lastOp'.key
               /\ \A n \in 1..Len(upstream) : upstream'[n] = upstream[n]
          ELSE upstream' = upstream]_vars

\* both properties of a class hold their subscription after instances
\* connected, disconnected, read and were pushed to
C12_Witness ==
    /\ stage = "defined"
    /\ Len(upstream) = 2
    /\ Len(decorated) = 2
    /\ pushes = "many"
    /\ lastOp.op = "disconnect"
    /\ lastOp.was

\* the instances that have a subscriber in the registry of a binding
Registered(key) == {subscribers[key][n].ctx : n \in 1..Len(subscribers[key])}

\* C13: an instance has a subscriber in the registry of a binding exactly when
\* its most recent lifecycle call was connectedCallback
C13_RegisteredIffConnected ==
    \A key \in Decorated : \A ctx \in Instances :
        (ctx \in Registered(key)) <=> connected[ctx]

\* an instance has just left the registry while another one stays in it
C13_Witness ==
    /\ lastOp.op = "disconnect"
    /\ lastOp.was
    /\ \E key \in Decorated :
           /\ lastOp.ctx \notin Registered(key)
           /\ Registered(key) # {}

\* what reading instance[key] would return now
ReadValue(ctx, key) ==
    IF own[key][ctx] = "data" THEN ownValue[key][ctx] ELSE get(key).currentValue

\* C14, as stated: an assignment to the decorated property of any instance
\* changes neither currentValue, nor the pending thunk, nor what a later read
\* of the property returns on any instance
C14_AssignmentChangesNothing ==
    [][lastOp'.op = "set" =>
         /\ currentValue' = currentValue
         /\ thunk' = thunk
         /\ \A ctx \in Instances : \A key \in Decorated :
                ReadValue(ctx, key)' = ReadValue(ctx, key)]_vars

\* C14, amended: an assignment never changes currentValue or the pending
\* thunk.  On an instance whose property is the accessor it is not stored
\* (a TypeError) and no later read changes;
\* on an instance with an own data property of that name it changes what
\* that instance reads, and nothing else
C14_AccessorIsReadOnly ==
    [][lastOp'.op = "set" =>
         /\ currentValue' = currentValue
         /\ thunk' = thunk
         /\ own' = own
         /\ \A ctx \in Instances : \A key \in Decorated :
                (ctx # lastOp'.ctx \/ key # lastOp'.key \/ own[key][ctx] # "data")
                => /\ ReadValue(ctx, key)' = ReadValue(ctx, key)
                   /\ ownValue'[key][ctx] = ownValue[key][ctx]
         /\ (own[lastOp'.key][lastOp'.ctx] # "data") <=> (info'.error = "TypeError")
         /\ own[lastOp'.key][lastOp'.ctx] = "data"
            => ownValue'[lastOp'.key][lastOp'.ctx] \in AssignedValues]_vars

\* strict code assigned to the accessor of a connected instance whose binding
\* holds a value
C14_Witness ==
    /\ lastOp.op = "set"
    /\ own[lastOp.key][lastOp.ctx] = "getter"
    /\ connected[lastOp.ctx]
    /\ info.error = "TypeError"
    /\ currentValue[lastOp.key] # Undefined

\* C15, as stated: all instances, connected or not, read the same value, and
\* a push that notifies at all notifies every connected instance
C15_AllInstancesReadTheSame ==
    \A key \in Decorated :
        /\ \A i \in Instances : \A j \in Instances :
               ReadValue(i, key) = ReadValue(j, key)
        /\ (lastOp.op = "push" /\ calls # <<>>)
           => \A i \in Instances :
                  Cardinality(CallsOn(calls, key, i)) = (IF connected[i] THEN 1 ELSE 0)

\* C15, amended: the binding is one per class: every instance without an own
\* data property of that name (every instance once connectedCallback has run
\* on it) reads the same value, which is the one the last read returned to
\* whichever instance made it, and a push that notifies at all notifies every
\* connected instance once
C15_AccessorInstancesReadTheSame ==
    \A key \in Decorated :
        /\ \A i \in Instances : connected[i] => own[key][i] = "getter"
        /\ \A i \in Instances : \A j \in Instances :
               (own[key][i] # "data" /\ own[key][j] # "data")
               => ReadValue(i, key) = ReadValue(j, key)
        /\ (lastOp.op = "get" /\ lastOp.key = key)
           => \A i \in Instances :
                  own[key][i] # "data" => ReadValue(i, key) = lastOp.ret
        /\ (lastOp.op = "push" /\ calls # <<>>)
           => \A i \in Instances :
                  Cardinality(CallsOn(calls, key, i)) = (IF connected[i] THEN 1 ELSE 0)

\* a push of a store notified two instances; all instances are connected and
\* read through the accessor
C15_Witness ==
    /\ lastOp.op = "push"
    /\ Len(calls) = 2
    /\ \A i \in Instances : connected[i] /\ own[calls[1].key][i] = "getter"
    /\ currentValue[calls[1].key] # Undefined
    /\ sourceKind = "store"

RECURSIVE NotifiedOf(_, _)
\* the instances notified for `key` by a push, in the order of the calls
NotifiedOf(log, key) ==
    IF log = <<>> THEN <<>>
    ELSE IF Head(log).key = key
         THEN <<Head(log).ctx>> \o NotifiedOf(Tail(log), key)
         ELSE NotifiedOf(Tail(log), key)

\* C16: the registry of a binding lists the connected instances in the order
\* of their most recent connectedCallback, a push that notifies calls
\* requestUpdate on them in that order, and the calls belong to that push
\* alone: they are made before any other operation
C16_NotifiedInRegistrationOrder ==
    /\ \A key \in Decorated :
           /\ [n \in 1..Len(subscribers[key]) |-> subscribers[key][n].ctx] = connectOrder
           /\ NotifiedOf(calls, key) \in {<<>>, connectOrder}
    /\ lastOp.op # "push" => calls = <<>>

\* a push notified instance 2 before instance 1
C16_Witness ==
    /\ lastOp.op = "push"
    /\ Len(calls) = 2
    /\ calls[1].ctx > calls[2].ctx
    /\ connectOrder = <<calls[1].ctx, calls[2].ctx>>

\* C17: a push that finds the registry of a binding empty runs no selector,
\* leaves currentValue alone, notifies nobody and leaves exactly the thunk of
\* its snapshot pending; a read that follows such a push runs the selector
\* once, on the snapshot of the last push, and leaves no thunk
C17_DeferredPushOnlyRecordsThunk ==
    [][/\ lastOp'.op = "push" =>
             \A key \in Upstream :
                 Len(subscribers[key]) = 0
                 => /\ selectorRuns'[key] = 0
                    /\ currentValue'[key] = currentValue[key]
                    /\ NotifiedOf(calls', key) = <<>>
                    /\ thunk'[key] = lastOp'.snap
       /\ (lastOp'.op = "get" /\ lastOp.op = "push" /\ deferred[lastOp'.key])
          => /\ selectorRuns'[lastOp'.key] = 1
             /\ lastOp'.ret = (IF lastOp'.key = "complete" THEN lastSnapshot
                               ELSE selector(lastSnapshot))
             /\ thunk'[lastOp'.key] = NoThunk]_vars

\* no instance ever connected, the stream pushed several times, and the read
\* ran the selector once
C17_Witness ==
    /\ lastOp.op = "get"
    /\ sourceKind = "stream"
    /\ pushes = "many"
    /\ \A i \in Instances : subscription[lastOp.key][i] = NoHandle
    /\ selectorRuns[lastOp.key] = 1
    /\ lastOp.ret = (IF lastOp.key = "complete" THEN lastSnapshot
                     ELSE selector(lastSnapshot))

\* C18: in every state of a defined class, and for every instance, whatever
\* its past, connectedCallback puts the instance into the registry and
\* disconnectedCallback takes it out, so the registry can always be made
\* non-empty and emptied again; and a push that changes the stored value
\* notifies every instance registered then, re-connected ones included
C18_NeitherStateIsTerminal ==
    stage = "defined" =>
    \A key \in Decorated :
        /\ \A ctx \in Instances :
               /\ ENABLED (connectedCallback(ctx)
                           /\ Registered(key)' = Registered(key) \cup {ctx})
               /\ ENABLED (disconnectedCallback(ctx)
                           /\ Registered(key)' = Registered(key) \ {ctx})
        /\ \A value \in Snapshots :
               (Registered(key) # {}
                /\ (IF key = "complete" THEN value ELSE selector(value)) # currentValue[key])
               => ENABLED (Push(value)
                           /\ \A ctx \in Instances :
                                  Cardinality(CallsOn(calls', key, ctx))
                                      = (IF ctx \in Registered(key) THEN 1 ELSE 0))

\* an instance that had connected and disconnected has connected again, and
\* is in the registry of a binding that holds a value
C18_Witness ==
    /\ lastOp.op = "connect"
    /\ ~lastOp.was
    /\ \E key \in Decorated :
           /\ Event("unsubscribe", key) \in {hooks[n] : n \in 1..Len(hooks)}
           /\ lastOp.ctx \in Registered(key)
           /\ currentValue[key] # Undefined

\* how often a lifecycle call took the step e
TimesDone(e) == Cardinality({n \in 1..Len(hooks) : hooks[n] = e})

\* what C19 says of a lifecycle call apart from the slot: connectedCallback
\* calls the host's own connectedCallback once and first, then registers the
\* instance once with every binding; disconnectedCallback removes the
\* instance from every registry that holds it, once, and calls the host's
\* own disconnectedCallback once and last
HooksInOrder ==
    /\ lastOp.op = "connect" =>
           /\ TimesDone(Event("original", "")) = 1
           /\ hooks[1] = Event("original", "")
           /\ \A key \in Decorated :
                  /\ TimesDone(Event("subscribe", key)) = 1
                  /\ TimesDone(Event("unsubscribe", key)) <= 1
                  /\ Cardinality({n \in 1..Len(subscribers[key]) :
                                     subscribers[key][n].ctx = lastOp.ctx}) = 1
                  /\ subscription[key][lastOp.ctx] = Handle
    /\ lastOp.op = "disconnect" =>
           /\ TimesDone(Event("original", "")) = 1
           /\ hooks[Len(hooks)] = Event("original", "")
           /\ \A key \in Decorated :
                  /\ TimesDone(Event("unsubscribe", key)) <= 1
                  /\ lastOp.was => TimesDone(Event("unsubscribe", key)) = 1
                  /\ lastOp.ctx \notin Registered(key)

\* C19, as stated: the hooks run in that order, once each, and after
\* disconnectedCallback the hidden slot of the instance is empty
C19_SlotClearedOnDisconnect ==
    /\ HooksInOrder
    /\ lastOp.op = "disconnect" =>
           \A key \in Decorated : subscription[key][lastOp.ctx] = NoHandle

\* C19, amended: the hooks run in that order, once each, for every decorated
\* property of the class; disconnectedCallback calls the unsubscribe closure
\* of the slot and leaves it there, so the slot is empty only on an instance
\* that never connected
C19_HooksOnceAndSlotKept ==
    /\ HooksInOrder
    /\ lastOp.op = "disconnect" =>
           \A key \in Decorated :
               (subscription[key][lastOp.ctx] = Handle)
                   <=> (TimesDone(Event("unsubscribe", key)) = 1)
    /\ \A key \in Decorated : \A ctx \in Instances :
           connected[ctx] => subscription[key][ctx] = Handle

\* a connected instance of a class with two decorated properties disconnected
C19_Witness ==
    /\ lastOp.op = "disconnect"
    /\ lastOp.was
    /\ Len(decorated) = 2
    /\ Len(hooks) = 3
    /\ hooks[3] = Event("original", "")

\* C20: once connectedCallback has run on an instance, the instance holds the
\* accessor as its own property, whatever it held before, and a read on it is
\* answered by the accessor with the value of the binding, never by an own
\* data property
C20_ConnectRepairsAccessor ==
    /\ \A key \in Decorated : \A ctx \in Instances :
           subscription[key][ctx] = Handle => own[key][ctx] = "getter"
    /\ (lastOp.op \in {"get", "own"} /\ subscription[lastOp.key][lastOp.ctx] = Handle)
       => /\ lastOp.op = "get"
          /\ lastOp.ret = currentValue[lastOp.key]
          /\ thunk[lastOp.key] = NoThunk

\* in a build with own fields an instance connected and read the value of the
\* binding, while another instance still holds a different value of its own
C20_Witness ==
    /\ lastOp.op = "get"
    /\ connected[lastOp.ctx]
    /\ lastOp.ret # Undefined
    /\ \E other \in Instances :
           /\ own[lastOp.key][other] = "data"
           /\ ownValue[lastOp.key][other] \in AssignedValues
           /\ ownValue[lastOp.key][other] # lastOp.ret

\* what a push does to the binding of k, told from that binding's own state
\* alone: with an empty registry it records the thunk, otherwise it stores the
\* derived value; the registry stays as it is
OwnStateOnly(k) ==
    /\ subscribers'[k] = subscribers[k]
    /\ IF subscribers[k] = <<>>
       THEN currentValue'[k] = currentValue[k] /\ thunk'[k] = lastOp'.snap
       ELSE /\ currentValue'[k] =
                 (IF k = "complete" THEN lastOp'.snap ELSE selector(lastOp'.snap))
            /\ thunk'[k] = thunk[k]

\* C21: the bindings of two decorated properties are independent: a push
\* changes the stored value, the thunk and the registry of a binding only as
\* that binding's own state tells, whatever happens to the other binding, and
\* requestUpdate is called with a property's name only when that property's
\* own derived value (what its accessor returned before the push) changed.
C21_BindingsAreIndependent ==
    [][(lastOp'.op = "push" /\ Len(decorated) = 2)
       => \A k \in Decorated :
            /\ OwnStateOnly(k)
            /\ NotifiedOf(calls', k) # <<>>
                 => (IF k = "complete" THEN lastOp'.snap ELSE selector(lastOp'.snap))
                        # get(k).currentValue]_vars

\* C22: a pending deferred recomputation always captures the most recent
\* snapshot the source pushed, so running it never stores a value derived from
\* an older snapshot.
C22_PendingThunkIsLatest ==
    \A key \in Upstream : thunk[key] # NoThunk => thunk[key] = lastSnapshot

\* C25: disconnectedCallback on an instance whose last lifecycle call was not
\* connectedCallback (it never connected, or it disconnected already) raises
\* no error, leaves every registry, the stored values and the pending thunks
\* as they were, and still calls the host's own disconnectedCallback, once and
\* last.
C25_DisconnectIsIdempotent ==
    [][(lastOp'.op = "disconnect" /\ ~lastOp'.was)
       => /\ subscribers' = subscribers
          /\ currentValue' = currentValue
          /\ thunk' = thunk
          /\ info'.error = ""
          /\ calls' = <<>>
          /\ Len(hooks') >= 1
          /\ hooks'[Len(hooks')] = Event("original", "")
          /\ Cardinality({n \in 1..Len(hooks') : hooks'[n] = Event("original", "")}) = 1]_vars

\* disconnectedCallback ran a second time in a row on an instance whose slot
\* still holds the spent closure, while another instance is registered and
\* the binding holds a value
C25_Witness ==
    /\ lastOp.op = "disconnect"
    /\ ~lastOp.was
    /\ \E key \in Decorated :
           /\ subscription[key][lastOp.ctx] = Handle
           /\ Event("unsubscribe", key) \in {hooks[n] : n \in 1..Len(hooks)}
           /\ \E other \in Instances : other # lastOp.ctx /\ other \in Registered(key)
           /\ currentValue[key] # Undefined

\* C26: src/src/index.ts and lib/createWatcher.ts, given the same pushes,
\* connectedCallback and disconnectedCallback calls and reads, return the
\* same value at every read and make the same requestUpdate calls with the
\* same arguments at every push.
C26_SameReadsAndCalls ==
    index.on =>
        /\ lastOp.op = "get" => index.ret = lastOp.ret
        /\ lastOp.op = "push" => index.calls = calls

\* C24: when the selector throws the binding is left as it was.  A push to a
\* non-empty registry changes neither the stored value nor the thunk nor the
\* registry and notifies nobody; a read whose thunk throws leaves the thunk
\* pending and the stored value and the registry as they were; and the push
\* that follows a throw is processed as any other: recorded as the thunk when
\* the registry is empty, else selected, stored, and when it differs from the
\* stored value notified to every registered instance in order.
C24_ThrowingSelectorLeavesBinding ==
    [][\A k \in Decorated \ {"complete"} :
         /\ (lastOp'.op = "push" /\ subscribers[k] # <<>>
               /\ throwsOn # NoSnapshot /\ lastOp'.snap = throwsOn)
            => /\ currentValue'[k] = currentValue[k]
               /\ thunk'[k] = thunk[k]
               /\ subscribers'[k] = subscribers[k]
               /\ NotifiedOf(calls', k) = <<>>
               /\ info'.error = "Error"
         /\ (lastOp'.op = "get" /\ lastOp'.key = k
               /\ throwsOn # NoSnapshot /\ thunk[k] = throwsOn)
            => /\ thunk'[k] = thunk[k]
               /\ currentValue'[k] = currentValue[k]
               /\ subscribers'[k] = subscribers[k]
               /\ info'.error = "Error"
         /\ (info.error = "Error" /\ lastOp.op \in {"push", "get"}
               /\ lastOp'.op = "push" /\ lastOp'.snap # throwsOn)
            => /\ subscribers'[k] = subscribers[k]
               /\ info'.error = ""
               /\ IF subscribers[k] = <<>>
                  THEN thunk'[k] = lastOp'.snap /\ currentValue'[k] = currentValue[k]
                  ELSE /\ currentValue'[k] = selector(lastOp'.snap)
                       /\ thunk'[k] = thunk[k]
                       /\ NotifiedOf(calls', k) =
                            (IF selector(lastOp'.snap) # currentValue[k]
                             THEN [n \in 1..Len(subscribers[k]) |-> subscribers[k][n].ctx]
                             ELSE <<>>)]_vars

\* the selector threw in a push to two registered instances of a binding that
\* holds a value
C24_Witness ==
    /\ lastOp.op = "push"
    /\ info.error = "Error"
    /\ lastSnapshot = throwsOn
    /\ \E k \in Decorated :
           /\ Len(subscribers[k]) = 2
           /\ currentValue[k] # Undefined
           /\ currentValue[k] # selector(throwsOn)

\* the instances registered when the loop of lastOp began, as a set
Before == {reentry.before[n] : n \in 1..Len(reentry.before)}

\* C23: when requestUpdate makes a lifecycle call during the notification
\* loop of a push, the instances notified in that push are exactly those
\* registered when the loop began, each once and in registration order: the
\* call neither adds nor drops a notification.  It takes effect from the next
\* push on: once the push is over, the registry that the next push will walk
\* holds the instance, as its newest entry, when the call was
\* connectedCallback and does not hold it when the call was
\* disconnectedCallback, each instance at most once.
C23_LoopNotifiesStartingRegistry ==
    (lastOp.op = "push" /\ reentry.did # NoReaction)
    => \A k \in Decorated :
         /\ NotifiedOf(calls, k) = reentry.before
         /\ Registered(k) =
              (IF reentry.did.op = "connect"
               THEN Before \cup {reentry.did.ctx}
               ELSE Before \ {reentry.did.ctx})
         /\ Len(subscribers[k]) = Cardinality(Registered(k))
         /\ reentry.did.op = "connect"
              => subscribers[k][Len(subscribers[k])].ctx = reentry.did.ctx

\* the notifier of the first registered instance ran disconnectedCallback on
\* the second, which was notified all the same and is registered no more
C23_Witness ==
    /\ lastOp.op = "push"
    /\ reentry.did.op = "disconnect"
    /\ Len(calls) = 2
    /\ calls[1].ctx = reentry.did.by
    /\ calls[2].ctx = reentry.did.ctx
    /\ calls[1].ctx # calls[2].ctx
    /\ \A k \in Decorated : Registered(k) = {reentry.did.by}

====
